---- MODULE Spec2Model ----
(***************************************************************************)
(* Model of megalodon's model-backend layer:                               *)
(*   - ModelInfo.__init__      (backends.py)  : backend selection, device  *)
(*     allocation and alphabet resolution;                                 *)
(*   - ModelInfo.prep_model_worker / run_model (backends.py) : the         *)
(*     per-worker-process life cycle;                                      *)
(*   - extract_read_data       (megalodon_helper.py) : the read loader.    *)
(*                                                                         *)
(* Python values are modelled as follows.  An optional value is <<>> for   *)
(* None and <<v>> for v.  A string that the code indexes (an alphabet) is  *)
(* a sequence of one-character strings.  An object's attributes are a      *)
(* function whose DOMAIN is the set of attributes assigned so far, so that *)
(* reading an attribute that was never assigned is an AttributeError.      *)
(* numpy index arithmetic is 0-based, as in the code; TLA+ sequences are   *)
(* 1-based, so alphabet[b_i] of the code is alphabet[b_i + 1] here.        *)
(***************************************************************************)
EXTENDS Integers, Sequences, FiniteSets, TLC

VARIABLES
    pc,        \* position of the constructing caller: "new" | "done"
    args,      \* the arguments of ModelInfo.__init__
    self,      \* the handle's attributes (construction spec and worker spec)
    exc,       \* the exception the last call raised (NoExc when it returned)
    ext,       \* what the backend runtime handed to __init__ (layer / cat mods)
    wk,        \* worker-process observations of prep_model_worker / run_model
    rd         \* the state of one extract_read_data call

vars == <<pc, args, self, exc, ext, wk, rd>>

----------------------------------------------------------------------------
(* Bounds of the model *)

MaxProc == 5
MaxDev == 3
MaxModSyms == 3
MinLayerSize == 38
MaxLayerSize == 61
MaxCalls == 4
MaxIdLen == 2

----------------------------------------------------------------------------
(* Python helpers *)

None == <<>>
Some(v) == <<v>>
IsNone(o) == o = <<>>
Val(o) == o[1]

Range(s) == {s[i] : i \in DOMAIN s}

\* obj.attr = value
SetAttr(obj, name, value) ==
    [a \in DOMAIN obj \cup {name} |-> IF a = name THEN value ELSE obj[a]]

HasAttr(obj, name) == name \in DOMAIN obj

\* d[key] = value on a dict
Put(d, key, value) ==
    [k \in DOMAIN d \cup {key} |-> IF k = key THEN value ELSE d[k]]

EmptyDict == [k \in {} |-> <<>>]

NoExc == [type |-> "", msg |-> ""]
Raise(type, msg) == [type |-> type, msg |-> msg]

RECURSIVE SumSeq(_)
SumSeq(s) == IF s = <<>> THEN 0 ELSE s[1] + SumSeq(Tail(s))

RECURSIVE Repeat(_, _)
\* [x] * n
Repeat(x, n) == IF n <= 0 THEN <<>> ELSE <<x>> \o Repeat(x, n - 1)

RECURSIVE Concat(_)
\* ''.join(parts)
Concat(parts) == IF parts = <<>> THEN <<>> ELSE parts[1] \o Concat(Tail(parts))

\* s[lo:hi] with 0-based, clipped bounds
Slice(s, lo, hi) ==
    LET l == IF lo > Len(s) THEN Len(s) ELSE lo
        h == IF hi > Len(s) THEN Len(s) ELSE hi
    IN  IF h <= l THEN <<>> ELSE SubSeq(s, l + 1, h)

----------------------------------------------------------------------------
(* Module constants *)

TAI_NAME == "taiyaki"
FLP_NAME == "flappie"
CAN_ALPHABET == <<"A", "C", "G", "T">>
ALPHABET == <<"A", "C", "G", "T">>
\* MOD_ALPHABET without its CAN_ALPHABET prefix: the letters a model may use
\* for modified bases, in the order the module lists them
MOD_ALPHABET_TAIL == <<"Z", "Y", "X", "W", "V", "U", "S", "R">>

----------------------------------------------------------------------------
(* megalodon_helper.nstate_to_nbase:                                       *)
(*   int(sqrt(0.25 + 0.5 * nstate) - 0.5)                                  *)
(* sqrt(0.25 + n/2) = sqrt(2n + 1) / 2, so the value is                    *)
(* (sqrt(2n + 1) - 1) / 2 and int() truncates it: the result is the       *)
(* largest k >= 0 with (2k + 1)^2 <= 2n + 1.                               *)

RECURSIVE ISqrtFrom(_, _)
ISqrtFrom(x, r) == IF (r + 1) * (r + 1) > x THEN r ELSE ISqrtFrom(x, r + 1)

\* floor of the square root
ISqrt(x) == ISqrtFrom(x, 0)

nstate_to_nbase(nstate) ==
    LET r == ISqrt(2 * nstate + 1)
    IN  IF r = 0 THEN 0 ELSE (r - 1) \div 2

----------------------------------------------------------------------------
(* Device allocation, ModelInfo.__init__ lines 78-86 *)

\* np.ceil(num_proc / len(devices)).astype(int)
CeilDiv(p, d) == (p + d - 1) \div d

FloorDiv(p, d) == p \div d

base_proc_per_device(num_proc, devices) == CeilDiv(num_proc, Len(devices))

\* lines 80-83 with the surplus taken from the first device only
procs_per_device_first(num_proc, devices) ==
    LET D == Len(devices)
        base == base_proc_per_device(num_proc, devices)
        over == base * D - num_proc
    IN  [i \in 1..D |-> IF base * D > num_proc /\ i = 1
                        THEN base - 1 ELSE base]

\* np.repeat(base, D), then the last (base * D - num_proc) entries -= 1
procs_per_device(num_proc, devices) ==
    LET D == Len(devices)
        base == base_proc_per_device(num_proc, devices)
        over == base * D - num_proc
    IN  [i \in 1..D |-> IF base * D > num_proc /\ i > D - over
                        THEN base - 1 ELSE base]

RECURSIVE NpRepeat(_, _)
\* np.repeat(values, counts)
NpRepeat(values, counts) ==
    IF values = <<>> THEN <<>>
    ELSE Repeat(values[1], counts[1]) \o NpRepeat(Tail(values), Tail(counts))

process_devices_of(num_proc, devices) ==
    NpRepeat(devices, procs_per_device(num_proc, devices))

----------------------------------------------------------------------------
(* Alphabet resolution *)

\* lines 114-115 with the modification counts left out of the prefix sum
can_indices_nogap(can_nmods) ==
    [i \in 1..Len(can_nmods) |-> i - 1]

\* np.cumsum(np.concatenate([[0], can_nmods[:-1] + 1])): 0-based offsets
can_indices_of(can_nmods) ==
    [i \in 1..Len(can_nmods) |->
        SumSeq([j \in 1..(i - 1) |-> can_nmods[j] + 1])]

\* ''.join(output_alphabet[b_i] for b_i in can_indices)
can_bases_of(output_alphabet, can_indices) ==
    [i \in 1..Len(can_indices) |-> output_alphabet[can_indices[i] + 1]]

\* ''.join(output_alphabet[b_i + 1:b_i + 1 + b_nmods] for b_i, b_nmods in zip(..))
mod_bases_of(output_alphabet, can_indices, can_nmods) ==
    Concat([i \in 1..Len(can_indices) |->
        Slice(output_alphabet, can_indices[i] + 1,
              can_indices[i] + 1 + can_nmods[i])])

\* defaultdict(list)[key].append(value)
AppendTo(d, key, value) ==
    Put(d, key, (IF key \in DOMAIN d THEN d[key] ELSE <<>>) \o <<value>>)

LoopStart ==
    [curr_can_base |-> None, curr_mod_i |-> None,
     str_to_int_mod_labels |-> EmptyDict, can_base_mods |-> EmptyDict]

RECURSIVE TaiyakiLoop(_, _, _, _)
\* lines 121-128: for base_i, base in enumerate(output_alphabet)
TaiyakiLoop(output_alphabet, can_indices, base_i, st) ==
    IF base_i >= Len(output_alphabet) THEN st
    ELSE LET base == output_alphabet[base_i + 1] IN
         IF base_i \in Range(can_indices)
         THEN TaiyakiLoop(output_alphabet, can_indices, base_i + 1,
                  [st EXCEPT !.curr_can_base = Some(base),
                             !.curr_mod_i = Some(0)])
         ELSE TaiyakiLoop(output_alphabet, can_indices, base_i + 1,
                  [st EXCEPT
                     !.str_to_int_mod_labels = Put(@, base, Val(st.curr_mod_i)),
                     !.can_base_mods = AppendTo(@, Val(st.curr_can_base), base),
                     !.curr_mod_i = Some(Val(@) + 1)])

RECURSIVE FlappieLoop(_, _, _, _)
\* lines 51-55: for base in output_alphabet, keyed on membership in can_bases
FlappieLoop(output_alphabet, can_bases, i, st) ==
    IF i > Len(output_alphabet) THEN st
    ELSE LET base == output_alphabet[i] IN
         IF base \in Range(can_bases)
         THEN FlappieLoop(output_alphabet, can_bases, i + 1,
                  [st EXCEPT !.curr_can_base = Some(base)])
         ELSE FlappieLoop(output_alphabet, can_bases, i + 1,
                  [st EXCEPT
                     !.can_base_mods = AppendTo(@, Val(st.curr_can_base), base)])

----------------------------------------------------------------------------
(* What the wrapped runtimes hand to the constructor.  A modification-    *)
(* aware alphabet lists each canonical base immediately followed by its   *)
(* modification symbols; the symbols of an alphabet are distinct.         *)

\* the number of modification symbols before canonical base i
ModsBefore(can_nmods, i) == SumSeq([j \in 1..(i - 1) |-> can_nmods[j]])

BuildAlphabet(can_nmods) ==
    Concat([i \in 1..Len(can_nmods) |->
        <<CAN_ALPHABET[i]>> \o
        [k \in 1..can_nmods[i] |->
            MOD_ALPHABET_TAIL[ModsBefore(can_nmods, i) + k]]])

LongName(m) == "modified base " \o m

CanNMods ==
    {nm \in [1..Len(CAN_ALPHABET) -> 0..MaxModSyms] : SumSeq(nm) <= MaxModSyms}

\* flappy.get_cat_mods(): the compiled model's declared counts and alphabet
CatModsReturns ==
    {[can_nmods |-> nm, output_alphabet |-> BuildAlphabet(nm)] :
        nm \in {<<1, 0, 2, 0>>, <<1, 1, 0, 0>>, <<0, 0, 0, 0>>}}

\* tmp_model.sublayers[-1] of a plain flip-flop model
PlainLayers ==
    {[is_cat_mod |-> FALSE, size |-> n, can_nmods |-> <<>>,
      output_alphabet |-> <<>>, mod_long_names_conv |-> <<>>] :
        n \in MinLayerSize..MaxLayerSize}

\* tmp_model.sublayers[-1] of a GlobalNormFlipFlopCatMod model
CatModLayers ==
    {[is_cat_mod |-> TRUE, size |-> 41 + SumSeq(nm), can_nmods |-> nm,
      output_alphabet |-> BuildAlphabet(nm),
      mod_long_names_conv |->
          [k \in 1..SumSeq(nm) |->
              <<MOD_ALPHABET_TAIL[k], LongName(MOD_ALPHABET_TAIL[k])>>]] :
        nm \in CanNMods}

Layers == PlainLayers \cup CatModLayers

NoCatMods == [can_nmods |-> <<>>, output_alphabet |-> <<>>]
NoLayer ==
    [is_cat_mod |-> FALSE, size |-> 0, can_nmods |-> <<>>,
     output_alphabet |-> <<>>, mod_long_names_conv |-> <<>>]

----------------------------------------------------------------------------
(* ModelInfo.__init__ *)

FlappieNames == {"r941_5mC", "r941_cat_mod", "r941_native"}

\* lines 22-64
FlappieInit(a, cm) ==
    LET name == Val(a.flappie_model_name)
        s0 == SetAttr(SetAttr(SetAttr(<<>>, "model_type", FLP_NAME),
                  "name", name), "flappy", "flappy")
    IN
    IF name = "r941_5mC"
    THEN [self |-> s0,
          exc |-> Raise("NotImplementedError",
                 "Naive modified base flip-flop models are not supported.")]
    ELSE IF name \in {"r941_cat_mod"}
    THEN LET can_nmods == cm.can_nmods
             output_alphabet == cm.output_alphabet
             n_mods == SumSeq(can_nmods)
             can_indices == can_indices_of(can_nmods)
             can_bases == can_bases_of(output_alphabet, can_indices)
             mod_bases == mod_bases_of(output_alphabet, can_indices, can_nmods)
             loop == FlappieLoop(output_alphabet, can_bases, 1, LoopStart)
             s1 == SetAttr(s0, "is_cat_mod", TRUE)
             s2 == SetAttr(s1, "output_alphabet", output_alphabet)
             s3 == SetAttr(s2, "can_nmods", can_nmods)
             s4 == SetAttr(s3, "n_mods", n_mods)
             s5 == SetAttr(s4, "output_size", 41 + n_mods)
             s6 == SetAttr(s5, "can_indices", can_indices)
             s7 == SetAttr(s6, "can_alphabet", can_bases)
             s8 == SetAttr(s7, "mod_long_names",
                       [i \in 1..Len(mod_bases) |-> <<mod_bases[i], mod_bases[i]>>])
             \* line 50 assigns can_base_mod; line 55 appends to it
             s9 == SetAttr(s8, "can_base_mod", loop.can_base_mods)
         IN  \* line 56 reads self.can_base_mods
             IF ~HasAttr(s9, "can_base_mods")
             THEN [self |-> s9,
                   exc |-> Raise("AttributeError",
                      "'ModelInfo' object has no attribute 'can_base_mods'")]
             ELSE [self |-> SetAttr(SetAttr(s9, "can_base_mods",
                                  s9["can_base_mods"]),
                              "process_devices", Repeat(None, a.num_proc)),
                   exc |-> NoExc]
    ELSE LET s1 == SetAttr(s0, "is_cat_mod", FALSE)
             s2 == SetAttr(s1, "can_alphabet", ALPHABET)
             s3 == SetAttr(s2, "mod_long_names", <<>>)
             s4 == SetAttr(s3, "output_size", 40)
             s5 == SetAttr(s4, "n_mods", 0)
         IN  [self |-> SetAttr(s5, "process_devices", Repeat(None, a.num_proc)),
              exc |-> NoExc]

\* lines 102-139, on the handle s built by lines 72-100
ResolveTaiyakiAlphabet(s, ff_layer) ==
    LET s1 == SetAttr(s, "is_cat_mod", ff_layer.is_cat_mod)
        s2 == SetAttr(s1, "output_size", ff_layer.size)
    IN
    IF ff_layer.is_cat_mod
    THEN LET output_alphabet == ff_layer.output_alphabet
             can_indices == can_indices_of(ff_layer.can_nmods)
             can_alphabet == can_bases_of(output_alphabet, can_indices)
             mod_long_names == ff_layer.mod_long_names_conv
             loop == TaiyakiLoop(output_alphabet, can_indices, 0, LoopStart)
             s3 == SetAttr(s2, "output_alphabet", output_alphabet)
             s4 == SetAttr(s3, "can_indices", can_indices)
             s5 == SetAttr(s4, "can_alphabet", can_alphabet)
             s6 == SetAttr(s5, "mod_long_names", mod_long_names)
             s7 == SetAttr(s6, "str_to_int_mod_labels",
                           loop.str_to_int_mod_labels)
             s8 == SetAttr(s7, "can_base_mods", loop.can_base_mods)
         IN  [self |-> SetAttr(s8, "n_mods", Len(mod_long_names)),
              exc |-> NoExc]
    ELSE IF nstate_to_nbase(ff_layer.size) # 4
    THEN [self |-> s2,
          exc |-> Raise("NotImplementedError",
                 "Naive modified base flip-flop models are not supported.")]
    ELSE LET s3 == SetAttr(s2, "output_alphabet", ALPHABET)
             s4 == SetAttr(s3, "can_alphabet", ALPHABET)
             s5 == SetAttr(s4, "mod_long_names", <<>>)
             s6 == SetAttr(s5, "str_to_int_mod_labels", EmptyDict)
         IN  [self |-> SetAttr(s6, "n_mods", 0), exc |-> NoExc]

ChunkArgs(a) == <<a.chunk_size, a.chunk_overlap, a.max_concur_chunks>>

\* lines 65-100: the checks and the device allocation before the model loads
TaiyakiPrepare(a) ==
    IF \E i \in 1..3 : IsNone(ChunkArgs(a)[i])
    THEN [self |-> <<>>,
          exc |-> Raise("NotImplementedError",
                 "Must provide chunk_size, chunk_overlap, max_concur_chunks in order to run the taiyaki base calling backend.")]
    ELSE
    LET s1 == SetAttr(<<>>, "model_type", TAI_NAME)
        s2 == SetAttr(s1, "fn", Val(a.taiyaki_model_fn))
        s3 == SetAttr(s2, "chunk_size", Val(a.chunk_size))
        s4 == SetAttr(s3, "chunk_overlap", Val(a.chunk_overlap))
        s5 == SetAttr(s4, "max_concur_chunks", Val(a.max_concur_chunks))
        s6 == SetAttr(s5, "devices", a.devices)
    IN
    IF IsNone(a.devices)
    THEN [self |-> s6,
          exc |-> Raise("TypeError", "object of type 'NoneType' has no len()")]
    ELSE IF Len(Val(a.devices)) = 0
    THEN [self |-> s6, exc |-> Raise("ZeroDivisionError", "division by zero")]
    ELSE IF SumSeq(procs_per_device(a.num_proc, Val(a.devices))) # a.num_proc
    THEN [self |-> s6, exc |-> Raise("AssertionError", "")]
    ELSE [self |-> SetAttr(s6, "process_devices",
                      process_devices_of(a.num_proc, Val(a.devices))),
          exc |-> NoExc]

\* lines 65-139
TaiyakiInit(a, ff_layer) ==
    LET pre == TaiyakiPrepare(a)
    IN  IF pre.exc # NoExc THEN pre
        ELSE ResolveTaiyakiAlphabet(pre.self, ff_layer)

\* the backend dispatch of lines 22, 65 and 140
SelectBackend(a) ==
    IF ~IsNone(a.flappie_model_name) THEN FLP_NAME
    ELSE IF ~IsNone(a.taiyaki_model_fn) THEN TAI_NAME
    ELSE "invalid"

ModelInfo__init__(a, cm, ff_layer) ==
    CASE SelectBackend(a) = FLP_NAME -> FlappieInit(a, cm)
      [] SelectBackend(a) = TAI_NAME -> TaiyakiInit(a, ff_layer)
      [] OTHER -> [self |-> <<>>,
                   exc |-> Raise("MegaError", "Invalid model specification.")]

----------------------------------------------------------------------------
(* The callers' arguments *)

DeviceIds == 0..(MaxDev - 1)

\* lists of distinct device ids, the empty list included
DeviceLists ==
    UNION {{d \in [1..n -> DeviceIds] :
               \A i, j \in 1..n : i # j => d[i] # d[j]} : n \in 0..MaxDev}

OptChunk(v) == {None, Some(v)}

InitArgs ==
    [flappie_model_name : {None} \cup {Some(n) : n \in FlappieNames},
     taiyaki_model_fn : {None, Some("model.checkpoint")},
     devices : {None} \cup {Some(d) : d \in DeviceLists},
     num_proc : 1..MaxProc,
     chunk_size : OptChunk(1000),
     chunk_overlap : OptChunk(100),
     max_concur_chunks : OptChunk(200)]

\* the runtime data the constructor reads on the path the arguments select
CatModsRead(a) ==
    IF SelectBackend(a) = FLP_NAME /\ Val(a.flappie_model_name) = "r941_cat_mod"
    THEN CatModsReturns ELSE {NoCatMods}

LayersRead(a) ==
    IF SelectBackend(a) = TAI_NAME /\ TaiyakiPrepare(a).exc = NoExc
    THEN Layers ELSE {NoLayer}

WkIdle == [hist |-> <<>>]
RdIdle == [pc |-> "idle"]

Init ==
    /\ pc = "new"
    /\ args \in InitArgs
    /\ self = <<>>
    /\ exc = NoExc
    /\ ext = [cat_mods |-> NoCatMods, layer |-> NoLayer]
    /\ wk = WkIdle
    /\ rd = RdIdle

Construct ==
    /\ pc = "new"
    /\ \E cm \in CatModsRead(args), ff_layer \in LayersRead(args) :
          LET r == ModelInfo__init__(args, cm, ff_layer) IN
          /\ self' = r.self
          /\ exc' = r.exc
          /\ ext' = [cat_mods |-> cm, layer |-> ff_layer]
    /\ pc' = "done"
    /\ UNCHANGED <<args, wk, rd>>

Next == Construct

Spec == Init /\ [][Next]_vars

----------------------------------------------------------------------------
(* The worker process: prep_model_worker and run_model.                    *)
(* A call into a wrapped runtime can fail where the code itself handles    *)
(* the failure (the try blocks of run_model); the torch calls of           *)
(* prep_model_worker, which the code does not guard, are taken to return.  *)

CpuDevice == [type |-> "cpu", index |-> 0]

\* torch.device(device) for a device id
TorchDevice(device) == [type |-> "cuda", index |-> device]

\* lines 145-157; device is None or Some(id)
prep_model_worker(s, device) ==
    IF s["model_type"] = TAI_NAME
    THEN LET loaded == [fn |-> s["fn"], on |-> CpuDevice, eval |-> FALSE]
         IN  IF ~IsNone(device)
             THEN SetAttr(SetAttr(s, "device", TorchDevice(Val(device))),
                      "model",
                      [loaded EXCEPT !.on = TorchDevice(Val(device)),
                                     !.eval = TRUE])
             ELSE SetAttr(SetAttr(s, "device", CpuDevice),
                      "model", [loaded EXCEPT !.eval = TRUE])
    ELSE s

\* what a run_model call did: the exception it raised (NoExc when it
\* returned), the value it returned, whether the inference routine was
\* invoked and whether torch.cuda.empty_cache() was called
RunOutcome(e, result, inferred, released) ==
    [exc |-> e, result |-> result, inferred |-> inferred, released |-> released]

\* trans_weights[:, :n_can_state], trans_weights[:, n_can_state:]
SplitColumns(ncol, n_can_state) ==
    LET n == IF n_can_state > ncol THEN ncol ELSE n_can_state
    IN  [kind |-> "pair", ncol |-> n, ncol_mod |-> ncol - n]

Matrix(ncol) == [kind |-> "matrix", ncol |-> ncol, ncol_mod |-> 0]

\* the outcomes of taiyaki's chunked inference that run_model tells apart
TaiOutcomes == {"ok", "AttributeError", "RuntimeError"}

\* lines 164-178 with the attribute error of an unprepared handle escaping
run_model_taiyaki_uncaught(s, n_can_state, tai) ==
    IF ~HasAttr(s, "model")
    THEN RunOutcome(Raise("AttributeError",
                        "'ModelInfo' object has no attribute 'model'"),
                    None, FALSE, FALSE)
    ELSE IF tai = "AttributeError"
    THEN RunOutcome(Raise("MegaError", "Out of date or incompatible model"),
                    None, TRUE, FALSE)
    ELSE IF tai = "RuntimeError"
    THEN RunOutcome(Raise("MegaError", "Likely out of memory error."),
                    None, TRUE, FALSE)
    ELSE RunOutcome(NoExc,
             Some(IF ~IsNone(n_can_state)
                  THEN SplitColumns(s["output_size"], Val(n_can_state))
                  ELSE Matrix(s["output_size"])),
             TRUE,
             s["device"] # CpuDevice)

\* lines 164-178: the taiyaki branch of run_model
run_model_taiyaki(s, n_can_state, tai) ==
    \* line 166-168: the arguments are evaluated inside the try block, so a
    \* missing self.model is caught by `except AttributeError` like a
    \* failure of the inference routine itself
    IF ~HasAttr(s, "model") \/ tai = "AttributeError"
    THEN RunOutcome(Raise("MegaError", "Out of date or incompatible model"),
                    None, HasAttr(s, "model"), FALSE)
    ELSE IF tai = "RuntimeError"
    THEN RunOutcome(Raise("MegaError", "Likely out of memory error."),
                    None, TRUE, FALSE)
    ELSE IF ~HasAttr(s, "device")
    THEN RunOutcome(Raise("AttributeError",
                        "'ModelInfo' object has no attribute 'device'"),
                    None, TRUE, FALSE)
    ELSE RunOutcome(NoExc,
             Some(IF ~IsNone(n_can_state)
                  THEN SplitColumns(s["output_size"], Val(n_can_state))
                  ELSE Matrix(s["output_size"])),
             TRUE,
             s["device"] # CpuDevice)

\* lines 159-182
run_model(s, n_can_state, tai) ==
    IF s["model_type"] = FLP_NAME
    THEN RunOutcome(NoExc, Some(Matrix(s["output_size"])), TRUE, FALSE)
    ELSE IF s["model_type"] = TAI_NAME
    THEN run_model_taiyaki(s, n_can_state, tai)
    ELSE RunOutcome(Raise("MegaError", "Invalid model type."),
                    None, FALSE, FALSE)

\* the handles the workers are started with: a compiled plain model, and a
\* trained model that is plain or modification-aware
WorkerArgs ==
    {a \in InitArgs :
        /\ a.num_proc = 1
        /\ a.devices = Some(<<0>>)
        /\ a.chunk_size # None /\ a.chunk_overlap # None
        /\ a.max_concur_chunks # None
        /\ \/ a.flappie_model_name = Some("r941_native")
                /\ a.taiyaki_model_fn = None
           \/ a.flappie_model_name = None /\ a.taiyaki_model_fn # None}

WorkerLayers(a) ==
    IF SelectBackend(a) = TAI_NAME
    THEN {l \in Layers : \/ ~l.is_cat_mod /\ l.size = 40
                         \/ l.is_cat_mod /\ l.can_nmods = <<1, 0, 2, 0>>}
    ELSE {NoLayer}

\* the devices a worker may be told to bind: the CPU or an assigned device
WorkerDevices == {None} \cup {Some(d) : d \in Range(Val(args.devices))}

NCanStates == {None, Some(40)}

WorkerInit ==
    /\ pc = "done"
    /\ args \in WorkerArgs
    /\ \E ff_layer \in WorkerLayers(args) :
          LET r == ModelInfo__init__(args, NoCatMods, ff_layer) IN
          /\ r.exc = NoExc
          /\ self = r.self
          /\ ext = [cat_mods |-> NoCatMods, layer |-> ff_layer]
    /\ exc = NoExc
    /\ wk = WkIdle
    /\ rd = RdIdle

\* one entry of the worker's call history
Call(op, device, out, before, after) ==
    [op |-> op, device |-> device, exc |-> out.exc, result |-> out.result,
     inferred |-> out.inferred, released |-> out.released,
     changed |-> after # before, configured |-> HasAttr(after, "model")]

PrepModelWorker ==
    /\ Len(wk.hist) < MaxCalls
    /\ \E device \in WorkerDevices :
          /\ self' = prep_model_worker(self, device)
          /\ wk' = [wk EXCEPT !.hist = Append(@,
                       Call("prep", device,
                            RunOutcome(NoExc, None, FALSE, FALSE),
                            self, self'))]
    /\ exc' = NoExc
    /\ UNCHANGED <<pc, args, ext, rd>>

RunModel ==
    /\ Len(wk.hist) < MaxCalls
    /\ \E n_can_state \in NCanStates,
          tai \in (IF self["model_type"] = TAI_NAME /\ HasAttr(self, "model")
                   THEN TaiOutcomes ELSE {"ok"}) :
          LET out == run_model(self, n_can_state, tai) IN
          /\ exc' = out.exc
          /\ wk' = [wk EXCEPT !.hist = Append(@,
                       Call("run", None, out, self, self))]
    /\ UNCHANGED <<pc, args, self, ext, rd>>

WorkerNext == PrepModelWorker \/ RunModel

WorkerSpec == WorkerInit /\ [][WorkerNext]_vars

----------------------------------------------------------------------------
(* extract_read_data, megalodon_helper.py lines 61-92, one step per try    *)
(* block.  A read container is what h5py finds in it: whether it opens,    *)
(* whether /Raw/Reads has an entry, the Signal dataset (None when missing  *)
(* or malformed), whether the attributes can be looked up, and the value   *)
(* attrs.get('read_id') yields: None, a bytes object or a str.             *)

\* 'a', the two bytes of U+00E9 in UTF-8, and a byte no UTF-8 text holds
ByteValues == {97, 195, 169, 255}

Bytes(data) == [kind |-> "bytes", data |-> data]
Str(data) == [kind |-> "str", data |-> data]

RECURSIVE Utf8Decode(_)
\* bytes.decode(): the code points of a UTF-8 byte string of one- and
\* two-byte sequences, None for a UnicodeDecodeError
Utf8Decode(bs) ==
    IF bs = <<>> THEN Some(<<>>)
    ELSE IF bs[1] < 128
    THEN LET rest == Utf8Decode(Tail(bs))
         IN  IF IsNone(rest) THEN None ELSE Some(<<bs[1]>> \o Val(rest))
    ELSE IF bs[1] >= 194 /\ bs[1] <= 223 /\ Len(bs) >= 2
            /\ bs[2] >= 128 /\ bs[2] <= 191
    THEN LET rest == Utf8Decode(Tail(Tail(bs)))
         IN  IF IsNone(rest) THEN None
             ELSE Some(<<(bs[1] - 192) * 64 + (bs[2] - 128)>> \o Val(rest))
    ELSE None

ByteStrings == UNION {[1..n -> ByteValues] : n \in 0..MaxIdLen}

\* what raw_slot.attrs.get('read_id') may return
ReadIdAttrs ==
    {None} \cup {Some(Bytes(b)) : b \in ByteStrings}
           \cup {Some(Str(<<97>>)), Some(Str(<<233, 97>>))}

Signals == {<<3, 1, 2>>, <<>>}

Fast5(openable, has_reads, signal, attrs_ok, read_id) ==
    [openable |-> openable, has_reads |-> has_reads, signal |-> signal,
     attrs_ok |-> attrs_ok, read_id |-> read_id]

Fast5Files ==
    {Fast5(FALSE, FALSE, None, FALSE, None),
     Fast5(TRUE, FALSE, None, FALSE, None),
     Fast5(TRUE, TRUE, None, FALSE, None)}
    \cup {Fast5(TRUE, TRUE, Some(sig), FALSE, None) : sig \in Signals}
    \cup {Fast5(TRUE, TRUE, Some(sig), TRUE, id) :
             sig \in Signals, id \in ReadIdAttrs}

ReadFail(r, msg) == [r EXCEPT !.pc = "raised", !.exc = Raise("MegaError", msg)]

\* fast5_data.close()
CloseFile(r) == [r EXCEPT !.is_open = FALSE, !.closes = @ + 1]

\* lines 66-69
open_step(r) ==
    IF ~r.file.openable THEN ReadFail(r, "Error opening read file")
    ELSE [r EXCEPT !.pc = "slot", !.is_open = TRUE, !.opens = @ + 1]

\* lines 70-74
slot_step(r) ==
    IF ~r.file.has_reads
    THEN ReadFail(CloseFile(r), "Raw signal not found in /Raw/Reads slot")
    ELSE [r EXCEPT !.pc = "signal"]

\* lines 75-79 without the close of the failure path
signal_step_leak(r) ==
    IF IsNone(r.file.signal)
    THEN ReadFail(r, "Raw signal not found in Signal dataset")
    ELSE [r EXCEPT !.pc = "read_id", !.raw_sig = r.file.signal]

\* lines 75-79
signal_step(r) ==
    IF IsNone(r.file.signal)
    THEN ReadFail(CloseFile(r), "Raw signal not found in Signal dataset")
    ELSE [r EXCEPT !.pc = "read_id", !.raw_sig = r.file.signal]

\* lines 80-85: read_id is assigned by line 82 before line 83 decodes it,
\* and the except clause assigns nothing
read_id_step(r) ==
    LET fetched == r.file.read_id IN
    [r EXCEPT !.pc = "close",
              !.read_id =
                  IF ~r.file.attrs_ok THEN None           \* line 82 raises
                  ELSE IF IsNone(fetched) THEN None       \* None.decode()
                  ELSE IF Val(fetched).kind # "bytes"
                  THEN fetched                            \* str has no decode
                  ELSE IF IsNone(Utf8Decode(Val(fetched).data))
                  THEN fetched                            \* UnicodeDecodeError
                  ELSE Some(Str(Val(Utf8Decode(Val(fetched).data))))]

\* line 86
close_step(r) == [CloseFile(r) EXCEPT !.pc = "scale"]

\* lines 88-92: (raw_sig - med) / mad, kept symbolic
return_step(r) ==
    [r EXCEPT !.pc = "returned",
              !.result = Some([raw_sig |-> Val(r.raw_sig),
                               scaled |-> r.scale,
                               read_id |-> r.read_id])]

ReadStart(file, scale) ==
    [pc |-> "open", file |-> file, scale |-> scale, is_open |-> FALSE,
     opens |-> 0, closes |-> 0, raw_sig |-> None, read_id |-> None,
     result |-> None, exc |-> NoExc]

IdleArgs ==
    [flappie_model_name |-> None, taiyaki_model_fn |-> None, devices |-> None,
     num_proc |-> 1, chunk_size |-> None, chunk_overlap |-> None,
     max_concur_chunks |-> None]

ReadInit ==
    /\ pc = "new"
    /\ args = IdleArgs
    /\ self = <<>>
    /\ exc = NoExc
    /\ ext = [cat_mods |-> NoCatMods, layer |-> NoLayer]
    /\ wk = WkIdle
    /\ rd \in {ReadStart(f, s) : f \in Fast5Files, s \in BOOLEAN}

OpenFile ==
    /\ rd.pc = "open"
    /\ rd' = open_step(rd)
    /\ UNCHANGED <<pc, args, self, exc, ext, wk>>

FindSlot ==
    /\ rd.pc = "slot"
    /\ rd' = slot_step(rd)
    /\ UNCHANGED <<pc, args, self, exc, ext, wk>>

ReadSignal ==
    /\ rd.pc = "signal"
    /\ rd' = signal_step(rd)
    /\ UNCHANGED <<pc, args, self, exc, ext, wk>>

ReadId ==
    /\ rd.pc = "read_id"
    /\ rd' = read_id_step(rd)
    /\ UNCHANGED <<pc, args, self, exc, ext, wk>>

CloseAfterRead ==
    /\ rd.pc = "close"
    /\ rd' = close_step(rd)
    /\ UNCHANGED <<pc, args, self, exc, ext, wk>>

ScaleAndReturn ==
    /\ rd.pc = "scale"
    /\ rd' = return_step(rd)
    /\ UNCHANGED <<pc, args, self, exc, ext, wk>>

ReadNext ==
    \/ OpenFile
    \/ FindSlot
    \/ ReadSignal
    \/ ReadId
    \/ CloseAfterRead
    \/ ScaleAndReturn

ReadSpec == ReadInit /\ [][ReadNext]_vars

----------------------------------------------------------------------------
(* Properties of the constructor *)

Done == pc = "done"
Succeeded == Done /\ exc = NoExc
AllChunksGiven == \A i \in 1..3 : ~IsNone(ChunkArgs(args)[i])

\* the number of entries of s equal to x
Count(s, x) == Cardinality({i \in DOMAIN s : s[i] = x})

\* the trained path got as far as the device allocation with a usable list
AllocationRan ==
    /\ Done
    /\ SelectBackend(args) = TAI_NAME
    /\ AllChunksGiven
    /\ ~IsNone(args.devices)
    /\ Len(Val(args.devices)) >= 1

(* C1: on the trained path, for every process count P >= 1 and every list *)
(* of D >= 1 devices, the assertion sum(procs_per_device) == P does not    *)
(* fail, process_devices has exactly P entries, all of them ids of the     *)
(* device list, every device is given between floor(P/D) and ceil(P/D)     *)
(* processes (so any two counts differ by at most 1), and all counts are   *)
(* equal when D divides P.                                                 *)
C1_BalancedAssignment ==
    AllocationRan =>
        LET P == args.num_proc
            devs == Val(args.devices)
            D == Len(devs)
        IN  /\ exc.type # "AssertionError"
            /\ HasAttr(self, "process_devices")
            /\ Len(self["process_devices"]) = P
            /\ Range(self["process_devices"]) \subseteq Range(devs)
            /\ \A d \in Range(devs) :
                  /\ Count(self["process_devices"], d) >= FloorDiv(P, D)
                  /\ Count(self["process_devices"], d) <= CeilDiv(P, D)
            /\ \A d1, d2 \in Range(devs) :
                  Count(self["process_devices"], d1)
                    - Count(self["process_devices"], d2) <= 1
            /\ (P % D = 0 =>
                  \A d \in Range(devs) :
                      Count(self["process_devices"], d) * D = P)

\* 5 processes over the 3 devices 2, 0, 1: an uneven split was made
C1_Witness ==
    /\ AllocationRan
    /\ exc = NoExc
    /\ args.num_proc = 5
    /\ Val(args.devices) = <<2, 0, 1>>
    /\ self["process_devices"] = <<2, 2, 0, 0, 1>>

\* the constructor resolved the alphabet of a modification-aware trained model
CatModResolved ==
    /\ Succeeded
    /\ SelectBackend(args) = TAI_NAME
    /\ ext.layer.is_cat_mod

\* a base's modification list; a base without modifications has no entry
ModsOf(can_base_mods, base) ==
    IF base \in DOMAIN can_base_mods THEN can_base_mods[base] ELSE <<>>

\* the 0-based offset of the i-th canonical base in an alphabet that lists
\* each canonical base followed by its modification symbols
CanOffset(can_nmods, i) == (i - 1) + ModsBefore(can_nmods, i)

(* C2: for a trained modification-aware model whose output alphabet lists  *)
(* each canonical base followed by its can_nmods modification symbols, the *)
(* canonical alphabet is the symbols at the prefix-sum offsets, every      *)
(* other symbol of the output alphabet is in the modification list of      *)
(* exactly one canonical base and a canonical symbol is in none, each      *)
(* base's list has can_nmods entries, and concatenating each canonical     *)
(* base with its list (empty without modifications), in canonical order,   *)
(* gives back the output alphabet.                                         *)
C2_AlphabetRoundTrip ==
    CatModResolved =>
        LET oa == ext.layer.output_alphabet
            nm == ext.layer.can_nmods
            ca == self["can_alphabet"]
            cbm == self["can_base_mods"]
            Owners(sym) == {b \in Range(ca) : sym \in Range(ModsOf(cbm, b))}
        IN  /\ self["output_alphabet"] = oa
            /\ Len(ca) = Len(nm)
            /\ DOMAIN cbm \subseteq Range(ca)
            /\ \A i \in 1..Len(nm) :
                  /\ ca[i] = oa[CanOffset(nm, i) + 1]
                  /\ Len(ModsOf(cbm, ca[i])) = nm[i]
            /\ \A p \in 1..Len(oa) :
                  IF \E i \in 1..Len(nm) : p = CanOffset(nm, i) + 1
                  THEN oa[p] \in Range(ca) /\ Owners(oa[p]) = {}
                  ELSE oa[p] \notin Range(ca) /\ Cardinality(Owners(oa[p])) = 1
            /\ Concat([i \in 1..Len(ca) |-> <<ca[i]>> \o ModsOf(cbm, ca[i])]) = oa

\* a model with one modification of A and two of G was resolved
C2_Witness ==
    /\ CatModResolved
    /\ ext.layer.can_nmods = <<1, 0, 2, 0>>
    /\ self["can_alphabet"] = <<"A", "C", "G", "T">>
    /\ DOMAIN self["can_base_mods"] = {"A", "G"}
    /\ self["can_base_mods"]["G"] = <<"Y", "X">>

\* the compiled model r941_cat_mod declaring counts [1,0,2,0] over ACGT
CatModScenario ==
    /\ Done
    /\ SelectBackend(args) = FLP_NAME
    /\ Val(args.flappie_model_name) = "r941_cat_mod"
    /\ ext.cat_mods.can_nmods = <<1, 0, 2, 0>>

(* C3: constructing the handle of the compiled model r941_cat_mod with     *)
(* declared counts [1,0,2,0] over ACGT completes without an exception and  *)
(* exposes can_base_mods, a mapping from canonical base to modification    *)
(* symbols: the output alphabet has 7 symbols, the canonical alphabet is   *)
(* ACGT and can_base_mods["A"] holds exactly 1 symbol.                     *)
C3_CompiledCatModConstructs ==
    CatModScenario =>
        /\ exc = NoExc
        /\ HasAttr(self, "can_base_mods")
        /\ Len(self["output_alphabet"]) = 7
        /\ self["can_alphabet"] = <<"A", "C", "G", "T">>
        /\ Len(self["can_base_mods"]["A"]) = 1

NeitherGiven == IsNone(args.flappie_model_name) /\ IsNone(args.taiyaki_model_fn)
BothGiven == ~IsNone(args.flappie_model_name) /\ ~IsNone(args.taiyaki_model_fn)

(* C4: construction succeeds only when exactly one of the compiled model   *)
(* name and the trained model file is given; with neither it raises        *)
(* MegaError('Invalid model specification.'); with both it is rejected     *)
(* instead of one backend being selected.                                  *)
C4_ExactlyOneBackendGiven ==
    Done =>
        /\ (exc = NoExc => ~NeitherGiven /\ ~BothGiven)
        /\ (NeitherGiven =>
               exc = Raise("MegaError", "Invalid model specification."))
        /\ (BothGiven => exc # NoExc)

\* the four classified failures of construction
ClassifiedFailure ==
    \/ SelectBackend(args) = "invalid"
    \/ SelectBackend(args) = TAI_NAME /\ ~AllChunksGiven
    \/ SelectBackend(args) = FLP_NAME
         /\ Val(args.flappie_model_name) = "r941_5mC"
    \/ /\ SelectBackend(args) = TAI_NAME
       /\ ext.layer \in PlainLayers
       /\ nstate_to_nbase(ext.layer.size) # 4

(* C7: each classified failure of construction (neither backend chosen, a  *)
(* missing chunk parameter on the trained path, the compiled model         *)
(* r941_5mC, a plain trained model whose implied base count is not 4) is   *)
(* raised, and raised as MegaError.                                        *)
C7_FailuresAreMegaError ==
    (Done /\ ClassifiedFailure) => exc.type = "MegaError"

\* a construction that succeeded for a plain (not modification-aware) model
PlainResolved == Succeeded /\ ~self["is_cat_mod"]

(* C10: every plain model, compiled or trained, whose construction         *)
(* succeeds has canonical alphabet ACGT, no modification labels and output *)
(* width exactly 40; a plain trained model whose final layer is not 40     *)
(* wide is rejected.                                                       *)
C10_PlainWidthIs40 ==
    /\ (PlainResolved =>
           /\ self["can_alphabet"] = <<"A", "C", "G", "T">>
           /\ self["n_mods"] = 0
           /\ self["mod_long_names"] = <<>>
           /\ self["output_size"] = 40)
    /\ (Done /\ SelectBackend(args) = TAI_NAME /\ ext.layer \in PlainLayers
            /\ ext.layer.size # 40
          => exc # NoExc)

----------------------------------------------------------------------------
(* Properties of the worker life cycle, stated over the call history *)

IsTrained == self["model_type"] = TAI_NAME
IsCompiled == self["model_type"] = FLP_NAME

RunCalls == {i \in DOMAIN wk.hist : wk.hist[i].op = "run"}
PrepCalls == {i \in DOMAIN wk.hist : wk.hist[i].op = "prep"}
PrepsBefore(i) == {j \in PrepCalls : j < i}

\* the most recent prep_model_worker call before call i
LastPrep(i) == CHOOSE j \in PrepsBefore(i) : \A k \in PrepsBefore(i) : k <= j

\* call i was made by a worker last prepared with a device id (not the CPU)
PreparedOnDevice(i) ==
    PrepsBefore(i) # {} /\ ~IsNone(wk.hist[LastPrep(i)].device)

\* call i was made by a worker last prepared with the null (CPU) device
PreparedOnCpu(i) ==
    PrepsBefore(i) # {} /\ IsNone(wk.hist[LastPrep(i)].device)

(* C8 as stated: on a trained-backend worker prepared with a non-null      *)
(* device, every run_model call that invoked the inference routine also    *)
(* released the cached device memory before it handed control back,        *)
(* whether it returned or raised MegaError; a worker prepared with the     *)
(* null device never releases.                                             *)
C8_ReleaseOnEveryPath ==
    IsTrained =>
        \A i \in RunCalls :
            /\ (PreparedOnDevice(i) /\ wk.hist[i].inferred
                    => wk.hist[i].released)
            /\ (PreparedOnCpu(i) => ~wk.hist[i].released)

(* What run_model does do about the cached device memory: a call whose    *)
(* inference call returned, on a worker prepared with a non-null device,   *)
(* released it and returned a result; a call that raised MegaError         *)
(* released nothing; a worker prepared with the null device never          *)
(* releases.                                                               *)
C8_ReleaseOnReturn ==
    IsTrained =>
        \A i \in RunCalls :
            /\ (PreparedOnDevice(i) /\ wk.hist[i].inferred
                  /\ wk.hist[i].exc = NoExc
                    => wk.hist[i].released /\ ~IsNone(wk.hist[i].result))
            /\ (wk.hist[i].exc.type = "MegaError" => ~wk.hist[i].released)
            /\ (PreparedOnCpu(i) => ~wk.hist[i].released)

(* C9: on the trained backend run_model returns a result only if           *)
(* prep_model_worker completed earlier in the process; a run_model call on *)
(* a handle that was never prepared returns nothing, raises MegaError and  *)
(* leaves the handle unconfigured.  On the compiled backend                *)
(* prep_model_worker changes nothing and run_model returns a result, with  *)
(* or without an earlier prep_model_worker.                                *)
C9_PrepBeforeRun ==
    /\ (IsTrained =>
          \A i \in RunCalls :
              /\ (~IsNone(wk.hist[i].result) => PrepsBefore(i) # {})
              /\ (PrepsBefore(i) = {} =>
                     /\ IsNone(wk.hist[i].result)
                     /\ wk.hist[i].exc.type = "MegaError"
                     /\ ~wk.hist[i].configured
                     /\ ~wk.hist[i].changed))
    /\ (IsCompiled =>
          /\ \A i \in PrepCalls :
                ~wk.hist[i].changed /\ ~wk.hist[i].configured
          /\ \A i \in RunCalls :
                wk.hist[i].exc = NoExc /\ ~IsNone(wk.hist[i].result))

\* a trained-backend worker ran before it was prepared and was refused,
\* was then prepared, and ran again and got a result
C9_Witness ==
    /\ IsTrained
    /\ \E i, k \in RunCalls :
          /\ PrepsBefore(i) = {}
          /\ wk.hist[i].exc.type = "MegaError"
          /\ PrepsBefore(k) # {}
          /\ ~IsNone(wk.hist[k].result)

----------------------------------------------------------------------------
(* Properties of extract_read_data *)

ReadOver == rd.pc \in {"returned", "raised"}

(* C5: when extract_read_data hands control back, by return or by raise,   *)
(* the container is not open: either it never opened, and the call raised  *)
(* MegaError('Error opening read file'), or it was opened once and closed  *)
(* exactly once; it is never closed more often than it was opened.         *)
C5_ContainerClosed ==
    /\ rd.closes <= rd.opens
    /\ (ReadOver =>
          /\ ~rd.is_open
          /\ \/ /\ rd.opens = 0 /\ rd.closes = 0
                /\ rd.exc = Raise("MegaError", "Error opening read file")
             \/ rd.opens = 1 /\ rd.closes = 1
          /\ (~rd.file.openable => rd.opens = 0)
          /\ (rd.pc = "returned" <=> rd.exc = NoExc))

\* a container that opened and had no usable Signal dataset: the call
\* raised with the container closed
C5_Witness ==
    /\ rd.pc = "raised"
    /\ rd.exc = Raise("MegaError", "Raw signal not found in Signal dataset")
    /\ rd.opens = 1
    /\ rd.closes = 1
    /\ ~rd.is_open

\* obtaining or decoding the read identifier failed
ReadIdFailed ==
    \/ ~rd.file.attrs_ok
    \/ IsNone(rd.file.read_id)
    \/ Val(rd.file.read_id).kind # "bytes"
    \/ IsNone(Utf8Decode(Val(rd.file.read_id).data))

(* C6: whenever obtaining or decoding the read identifier fails (lookup    *)
(* fails, attribute missing, value not decodable), the call still returns  *)
(* and the read identifier it returns is None.                             *)
C6_ReadIdAbsentOnFailure ==
    (rd.pc = "returned" /\ ReadIdFailed) =>
        rd.exc = NoExc /\ IsNone(Val(rd.result).read_id)

====
